---- MODULE Spec2Model ----
(***************************************************************************)
(* Model of src/bisection_method_project.py: the Dash callback             *)
(* update_output and the solver bisection_method it calls.                 *)
(*                                                                         *)
(* Numbers.  Python floats are modelled as a fixed-point grid: every       *)
(* integer of the model is a real number in units of 1/Ulp of the spacing  *)
(* between neighbouring representable bounds, so a representable bound is  *)
(* a multiple of Ulp.  Sums, differences and products of the model are     *)
(* exact (as they are in IEEE double arithmetic for the magnitudes used    *)
(* here); the one rounding operation is the midpoint (a + b) / 2, which    *)
(* IEEE rounds to the nearest representable value, ties to even.           *)
(* Tolerances and function values are arbitrary integers of the model, so  *)
(* a tolerance below Ulp / 2 is one "below representable precision".       *)
(*                                                                         *)
(* Python's None is the empty sequence, a present value v is <<v>>.        *)
(***************************************************************************)
EXTENDS Integers, Sequences, FiniteSets, TLC

\* ---------------------------------------------------------------- bounds
Ulp == 4           \* model units between neighbouring representable bounds
MaxGrid == 8       \* bounds are drawn from 0, Ulp, ..., MaxGrid * Ulp
MaxIterBound == 3  \* max_iter is drawn from 0 .. MaxIterBound

\* ---------------------------------------------------------------- values
None == <<>>
Some(v) == <<v>>
Val(o) == o[1]
Abs(x) == IF x < 0 THEN -x ELSE x

Grid == {Ulp * k : k \in 0..MaxGrid}

\* the root of the sample functions that lies between two grid points
RootOff == 4 * Ulp + 1
\* the root of the sample functions that is itself a grid point
RootOn == 3 * Ulp

Equations == {"x - r", "r - x", "8*(x - r)", "x - g", "(x - g)**2", "sign(x - r)"}
EquationInputs == {None, Some(""), Some("x +")} \cup {Some(e) : e \in Equations}
BoundInputs == {None} \cup {Some(x) : x \in Grid}
Tolerances == {0, 1, 2, 3, Ulp + 1, 3 * Ulp}

\* lambdify(x, sympify(equation)) applied to x, for the valid equations
func(e, x) ==
  CASE e = "x - r" -> x - RootOff
    [] e = "r - x" -> RootOff - x
    [] e = "8*(x - r)" -> 8 * (x - RootOff)
    [] e = "x - g" -> x - RootOn
    [] e = "(x - g)**2" -> (x - RootOn) * (x - RootOn)
    [] e = "sign(x - r)" -> IF x > RootOff THEN 1 ELSE IF x < RootOff THEN -1 ELSE 0

\* sympify(equation) raises for text that is not an expression
Parses(e) == e \in Equations

\* Python truthiness of an optional text input: None and "" are false
TruthyText(o) == o # None /\ Val(o) # ""
\* Python truthiness of an optional number input: None and 0 are false
TruthyNumber(o) == o # None /\ Val(o) # 0

\* line 205: not (equation and lower_bound and upper_bound)
MissingInput(eq, lo, hi) == ~(TruthyText(eq) /\ TruthyNumber(lo) /\ TruthyNumber(hi))

\* line 18: func(a) * func(b) >= 0
SignFailure(e, x, y) == func(e, x) * func(e, y) >= 0

\* the loop bound taken one pass too far
LoopContinues_OffByOne(n, m) == n <= m

\* line 22: for i in range(max_iter), i counting the passes already made
LoopContinues(n, m) == n < m

\* the midpoint with the division by 2 left out
Midpoint_NoHalving(x, y) == x + y

\* line 23: c = (a + b) / 2, rounded to the nearest grid point, ties to even
Midpoint(x, y) ==
  LET s == (x + y) \div Ulp
      q == s \div 2
  IN  IF s % 2 = 0 THEN Ulp * q
      ELSE IF q % 2 = 0 THEN Ulp * q ELSE Ulp * (q + 1)

\* the convergence test with an inclusive comparison of |f(c)|
Converged_Inclusive(fc, x, y, t) == Abs(fc) <= t \/ (y - x) < 2 * t
\* the convergence test without the test of |f(c)|
Converged_WidthOnly(fc, x, y, t) == (y - x) < 2 * t

\* line 27: abs(f_c) < tol or (b - a) / 2 < tol
Converged(fc, x, y, t) == Abs(fc) < t \/ (y - x) < 2 * t

\* the half selection with the comparison inverted
RootInLeftHalf_Inverted(e, fc, x) == fc * func(e, x) > 0

\* line 29: f_c * func(a) < 0
RootInLeftHalf(e, fc, x) == fc * func(e, x) < 0

\* line 25: the record appended to iterations
Record(n, x, y, z, fz) == [Iteration |-> n + 1, a |-> x, b |-> y, c |-> z, fc |-> fz]

\* line 19
SignFailureResult ==
  [root |-> None, iterations |-> None,
   error |-> Some("Function must have opposite signs at the endpoints a and b.")]
\* line 28
ConvergedResult(z, its) == [root |-> Some(z), iterations |-> Some(its), error |-> None]
\* the exhaustion return without its error text
ExhaustedResult_NoError(its) == [root |-> None, iterations |-> Some(its), error |-> None]
\* line 34
ExhaustedResult(its) ==
  [root |-> None, iterations |-> Some(its),
   error |-> Some("Maximum iterations reached without convergence.")]
NoResult == [root |-> None, iterations |-> None, error |-> None]

\* ----------------------------------------------------------------- state
VARIABLES
  equation, lower_bound, upper_bound, tolerance, max_iter,  \* callback inputs
  pc,          \* position: request, call, loop, check, ret, done
  f, a, b, tol, maxit,  \* arguments of bisection_method
  i, c, f_c, iterations,  \* locals of bisection_method
  result,      \* the triple bisection_method returned
  message      \* first output of update_output

vars == <<equation, lower_bound, upper_bound, tolerance, max_iter, pc,
          f, a, b, tol, maxit, i, c, f_c, iterations, result, message>>

inputs == <<equation, lower_bound, upper_bound, tolerance, max_iter>>
args == <<f, tol, maxit>>

Init ==
  /\ equation \in EquationInputs
  /\ lower_bound \in BoundInputs
  /\ upper_bound \in BoundInputs
  /\ tolerance \in Tolerances
  /\ max_iter \in 0..MaxIterBound
  /\ pc = "request"
  /\ f = "" /\ a = 0 /\ b = 0 /\ tol = 0 /\ maxit = 0
  /\ i = 0 /\ c = 0 /\ f_c = 0 /\ iterations = <<>>
  /\ result = NoResult
  /\ message = ""

\* lines 205-206: a falsy required input ends the request
ReportMissing ==
  /\ pc = "request"
  /\ MissingInput(equation, lower_bound, upper_bound)
  /\ message' = "Please provide all inputs."
  /\ pc' = "done"
  /\ UNCHANGED <<inputs, args, a, b, i, c, f_c, iterations, result>>

\* lines 208-211, 246-247: sympify raises, the handler reports the exception
ReportException ==
  /\ pc = "request"
  /\ ~MissingInput(equation, lower_bound, upper_bound)
  /\ ~Parses(Val(equation))
  /\ message' = "Error"
  /\ pc' = "done"
  /\ UNCHANGED <<inputs, args, a, b, i, c, f_c, iterations, result>>

\* lines 208-215: the call of bisection_method
CallSolver ==
  /\ pc = "request"
  /\ ~MissingInput(equation, lower_bound, upper_bound)
  /\ Parses(Val(equation))
  /\ f' = Val(equation)
  /\ a' = Val(lower_bound)
  /\ b' = Val(upper_bound)
  /\ tol' = tolerance
  /\ maxit' = max_iter
  /\ pc' = "call"
  /\ UNCHANGED <<inputs, i, c, f_c, iterations, result, message>>

\* lines 18-19
ReturnSignFailure ==
  /\ pc = "call"
  /\ SignFailure(f, a, b)
  /\ result' = SignFailureResult
  /\ pc' = "ret"
  /\ UNCHANGED <<inputs, args, a, b, i, c, f_c, iterations, message>>

\* lines 18, 21
EnterLoop ==
  /\ pc = "call"
  /\ ~SignFailure(f, a, b)
  /\ iterations' = <<>>
  /\ i' = 0
  /\ pc' = "loop"
  /\ UNCHANGED <<inputs, args, a, b, c, f_c, result, message>>

\* lines 22-25
LoopPass ==
  /\ pc = "loop"
  /\ LoopContinues(i, maxit)
  /\ c' = Midpoint(a, b)
  /\ f_c' = func(f, Midpoint(a, b))
  /\ iterations' = Append(iterations, Record(i, a, b, Midpoint(a, b), func(f, Midpoint(a, b))))
  /\ pc' = "check"
  /\ UNCHANGED <<inputs, args, a, b, i, result, message>>

\* lines 27-28
ReturnRoot ==
  /\ pc = "check"
  /\ Converged(f_c, a, b, tol)
  /\ result' = ConvergedResult(c, iterations)
  /\ pc' = "ret"
  /\ UNCHANGED <<inputs, args, a, b, i, c, f_c, iterations, message>>

\* lines 27, 29-32
UpdateBracket ==
  /\ pc = "check"
  /\ ~Converged(f_c, a, b, tol)
  /\ IF RootInLeftHalf(f, f_c, a)
       THEN b' = c /\ a' = a
       ELSE a' = c /\ b' = b
  /\ i' = i + 1
  /\ pc' = "loop"
  /\ UNCHANGED <<inputs, args, c, f_c, iterations, result, message>>

\* lines 22, 34
ReturnExhausted ==
  /\ pc = "loop"
  /\ ~LoopContinues(i, maxit)
  /\ result' = ExhaustedResult(iterations)
  /\ pc' = "ret"
  /\ UNCHANGED <<inputs, args, a, b, i, c, f_c, iterations, message>>

\* lines 217-218
ReportError ==
  /\ pc = "ret"
  /\ TruthyText(result.error)
  /\ message' = Val(result.error)
  /\ pc' = "done"
  /\ UNCHANGED <<inputs, args, a, b, i, c, f_c, iterations, result>>

\* lines 217, 220-244
ReportRoot ==
  /\ pc = "ret"
  /\ ~TruthyText(result.error)
  /\ message' = "Root"
  /\ pc' = "done"
  /\ UNCHANGED <<inputs, args, a, b, i, c, f_c, iterations, result>>

Next ==
  \/ ReportMissing
  \/ ReportException
  \/ CallSolver
  \/ ReturnSignFailure
  \/ EnterLoop
  \/ LoopPass
  \/ ReturnRoot
  \/ UpdateBracket
  \/ ReturnExhausted
  \/ ReportError
  \/ ReportRoot

Spec == Init /\ [][Next]_vars

\* ------------------------------------------------------- claim vocabulary
Returned == pc = "ret"
a0 == Val(lower_bound)
b0 == Val(upper_bound)
\* the preconditions of the solver's contract
Preconditions == a0 # b0 /\ tol > 0 /\ maxit >= 1
Trace == Val(result.iterations)
RootReturned == result.root # None
NoSignChange == Some("Function must have opposite signs at the endpoints a and b.")
MaxIterationsExceeded == Some("Maximum iterations reached without convergence.")
\* the convergence test as the spec words it, on the record of one pass
HalfWidthTest(r) == Abs(r.fc) < tol \/ Abs(r.b - r.a) < 2 * tol
\* the convergence test as line 27 computes it, on the record of one pass
SignedWidthTest(r) == Abs(r.fc) < tol \/ (r.b - r.a) < 2 * tol

\* C1: whenever f(a)*f(b) >= 0 the solver makes no pass and returns root
\* absent, an empty trace and the sign-change error.
C1_SignFailureReturnsEmptyTrace ==
  (Returned /\ SignFailure(f, a0, b0)) =>
     /\ result.root = None
     /\ result.iterations = Some(<<>>)
     /\ result.error = NoSignChange

\* C2 as stated: under the preconditions every returned root has
\* |f(root)| < tolerance.
C2_RootResidualBelowTolerance ==
  (Returned /\ Preconditions /\ RootReturned) =>
     Abs(func(f, Val(result.root))) < tol

\* C2 amended: under the preconditions every returned root is the midpoint of
\* the last record, and either |f(root)| < tolerance or the signed half-width
\* (b - a) / 2 of that record's bracket is below tolerance.
C2_RootResidualOrHalfWidthBelowTolerance ==
  (Returned /\ Preconditions /\ RootReturned) =>
     LET last == Trace[Len(Trace)]
     IN  /\ Val(result.root) = last.c
         /\ \/ Abs(func(f, Val(result.root))) < tol
            \/ (last.b - last.a) < 2 * tol

\* a root returned by the width test alone, after the bracket was narrowed
C2_Witness ==
  /\ Returned /\ Preconditions /\ RootReturned
  /\ a0 < b0
  /\ Len(Trace) >= 2
  /\ Abs(func(f, Val(result.root))) >= tol

\* C3: with a sign change and the convergence test failing in every pass, the
\* solver returns root absent, exactly max_iter records and the
\* maximum-iterations error.
C3_ExhaustionReturnsFullTrace ==
  (/\ Returned
   /\ ~SignFailure(f, a0, b0)
   /\ \A k \in 1..Len(Trace) : ~SignedWidthTest(Trace[k])) =>
     /\ result.root = None
     /\ Len(Trace) = maxit
     /\ result.error = MaxIterationsExceeded

\* max_iter = 1 with a tolerance below the grid spacing
C3_Witness ==
  /\ Returned
  /\ maxit = 1 /\ tol = 1
  /\ result.error = MaxIterationsExceeded
  /\ Len(Trace) = 1

\* C4: every return carries a root or an error, never both and never neither.
C4_ExactlyOneOfRootAndError ==
  Returned => ((result.root # None) <=> (result.error = None))

C4_Witness ==
  /\ Returned
  /\ result.root = None
  /\ result.error = MaxIterationsExceeded
  /\ Len(Trace) = maxit /\ maxit >= 2

\* C5: under the preconditions the returned trace is a sequence of records
\* numbered 1, 2, ..., of length at most max_iter, empty only on the
\* sign-change failure.
C5_TraceLengthAndIndices ==
  (Returned /\ Preconditions) =>
     /\ result.iterations # None
     /\ \A k \in 1..Len(Trace) : Trace[k].Iteration = k
     /\ Len(Trace) <= maxit
     /\ (Len(Trace) = 0 => result.error = NoSignChange)

\* C6: with tolerance > 0, at the head of the loop the function values at
\* the two bounds have strictly opposite signs.
C6_BracketKeepsSignChange ==
  (pc = "loop" /\ tol > 0) => func(f, a) * func(f, b) < 0

\* the loop head after both bounds have been replaced
C6_Witness ==
  /\ pc = "loop" /\ tol > 0
  /\ i >= 2
  /\ a # a0 /\ b # b0

\* the bracket of record k + 1 is the left or the right part of record k's
BracketFromMidpoint(r, n) ==
  \/ n.a = r.a /\ n.b = r.c
  \/ n.a = r.c /\ n.b = r.b

\* C7 as stated: consecutive records halve the bracket, the new bracket being
\* (a, c) or (c, b) with c = (a + b) / 2.
C7_BracketHalves ==
  \A k \in 1..(Len(iterations) - 1) :
     LET r == iterations[k]
         n == iterations[k + 1]
     IN  /\ 2 * r.c = r.a + r.b
         /\ BracketFromMidpoint(r, n)
         /\ 2 * (n.b - n.a) <= r.b - r.a

\* C7 amended: the new bracket is (a, c) or (c, b) for the recorded midpoint
\* c, which lies within half a grid spacing of (a + b) / 2; the bracket never
\* widens, and it is halved whenever c is (a + b) / 2 exactly.
C7_BracketNeverWidens ==
  \A k \in 1..(Len(iterations) - 1) :
     LET r == iterations[k]
         n == iterations[k + 1]
     IN  /\ Abs(2 * r.c - (r.a + r.b)) <= Ulp
         /\ BracketFromMidpoint(r, n)
         /\ n.b - n.a <= r.b - r.a
         /\ (2 * r.c = r.a + r.b => 2 * (n.b - n.a) <= r.b - r.a)

\* three records: an exact halving followed by a pass that could not narrow
C7_Witness ==
  /\ Len(iterations) = 3
  /\ 2 * (iterations[2].b - iterations[2].a) = iterations[1].b - iterations[1].a
  /\ iterations[3].b - iterations[3].a = iterations[2].b - iterations[2].a

\* C8: a request that supplies equation, lower bound and upper bound is never
\* answered with the missing-input message.
C8_SuppliedInputsReachSolver ==
  (/\ pc = "done"
   /\ equation # None /\ equation # Some("")
   /\ lower_bound # None
   /\ upper_bound # None) =>
     message # "Please provide all inputs."

\* C9: under the preconditions and with a sign change, a root is returned at
\* the first pass whose record has |f(c)| < tolerance or |b - a| / 2 <
\* tolerance, and at no other pass.
C9_RootAtFirstConvergedPass ==
  (Returned /\ Preconditions /\ ~SignFailure(f, a0, b0)) =>
     /\ \A k \in 1..(Len(Trace) - 1) : ~HalfWidthTest(Trace[k])
     /\ RootReturned => HalfWidthTest(Trace[Len(Trace)])
     /\ ~RootReturned => \A k \in 1..Len(Trace) : ~HalfWidthTest(Trace[k])

====
